---------------------------- MODULE Spec2Model ----------------------------
(* Model of app.py, the Streamlit fake-news detector.                      *)
(*                                                                         *)
(* One server process runs the script once per rerun of every browser      *)
(* session.  The process shares the st.cache_resource cache of             *)
(* load_models between all sessions; every session owns its                *)
(* st.session_state.  A script run is a sequence of stages:                *)
(*   load_models (cache lookup, lock, body) -> gate on the artifacts ->    *)
(*   col1 (widgets and the "Check Authenticity" handler) ->                *)
(*   col2 (the "Recent Checks" list) -> footer,                            *)
(* or, when an artifact is None, the else branch -> footer.                *)
EXTENDS Integers, Sequences, FiniteSets, TLC

(***************************************************************************)
(* Bounds of the model.                                                    *)
(***************************************************************************)
\* script runs of session 1 in Spec
MaxRuns == 3
\* script runs of the single session in SpecLong
MaxChecks == 6

\* app.py:186  history[-5:]
DisplayWindow == 5

Sessions == {1, 2}

(***************************************************************************)
(* Inputs.                                                                 *)
(***************************************************************************)
\* Text is a sequence of characters, so that strip() has something to do.
Whitespace == {" ", "\t", "\n"}
Texts == { <<>>, <<" ", "\n">>, <<"a">>, <<" ", "b">> }

\* What the two pickle files hold: nothing readable, or a fitted object.
ModelFiles == {"missing", "binary", "multiclass"}
VectorizerFiles == {"missing", "tfidf"}

\* Number of classes of a loaded classifier.
Classes(model) == IF model = "multiclass" THEN 3 ELSE 2

\* predict_proba row of a classifier that predicts class index i.
ProbaRow(model, i) ==
    IF model = "multiclass"
    THEN [k \in 1..3 |-> IF k = i + 1 THEN 50 ELSE IF k = ((i + 1) % 3) + 1 THEN 30 ELSE 20]
    ELSE IF i = 1 THEN <<8, 92>> ELSE <<77, 23>>

\* What the artifacts do on one call of predict_news: one of the three
\* library calls raises, or predict returns a class index and predict_proba
\* the row of probabilities (in percent).
Outcomes(model) ==
    { [raises |-> r, prediction |-> -1, probabilities |-> <<>>] : r \in {"transform", "predict"} }
    \cup
    { [raises |-> "none", prediction |-> i, probabilities |-> ProbaRow(model, i)] :
        i \in 0..(Classes(model) - 1) }

NoOutcome == [raises |-> "none", prediction |-> -1, probabilities |-> <<>>]

(***************************************************************************)
(* Pure functions of the script.                                           *)
(***************************************************************************)
RECURSIVE LStrip(_)
LStrip(t) == IF t # <<>> /\ Head(t) \in Whitespace THEN LStrip(Tail(t)) ELSE t

RECURSIVE RStrip(_)
RStrip(t) ==
    IF t # <<>> /\ t[Len(t)] \in Whitespace THEN RStrip(SubSeq(t, 1, Len(t) - 1)) ELSE t

\* the comparison with "" made on the raw text
NoStrip(t) == t

\* str.strip()
Strip(t) == RStrip(LStrip(t))

\* Python's None as the value of result
None == [prediction |-> "None", confidence |-> 0, probabilities |-> <<>>]

\* predict_news that always reports the probability of index 1
PredictNewsFixedIndex(news_text, model, vectorizer, oc) ==
    IF vectorizer = "None" \/ model = "None" \/ oc.raises # "none"
    THEN None
    ELSE [prediction |-> IF oc.prediction = 1 THEN "REAL" ELSE "FAKE",
          confidence |-> oc.probabilities[2],
          probabilities |-> oc.probabilities]

\* predict_news(news_text, model, vectorizer); oc is what the artifacts do.
PredictNews(news_text, model, vectorizer, oc) ==
    IF vectorizer = "None" \/ model = "None" \/ oc.raises # "none"
    THEN None
    ELSE LET prediction == oc.prediction
             probabilities == oc.probabilities
             confidence == IF prediction = 1 THEN probabilities[2] ELSE probabilities[1]
         IN [prediction |-> IF prediction = 1 THEN "REAL" ELSE "FAKE",
             confidence |-> confidence,
             probabilities |-> probabilities]

\* h[-n:]
LastN(h, n) == IF Len(h) <= n THEN h ELSE SubSeq(h, Len(h) - n + 1, Len(h))

\* reversed(h)
Reversed(h) == [i \in 1..Len(h) |-> h[Len(h) + 1 - i]]

\* reversed(history[:5]): the first five entries instead of the last five
OldestChecks(history) ==
    Reversed(IF Len(history) <= DisplayWindow THEN history ELSE SubSeq(history, 1, DisplayWindow))

\* history[-5:] without reversed()
UnreversedChecks(history) == LastN(history, DisplayWindow)

\* reversed(st.session_state.history[-5:])
RecentChecks(history) == Reversed(LastN(history, DisplayWindow))

\* the handler without "if result:"
HandleUnchecked(history, analyze_button, news_text, result) ==
    IF analyze_button /\ Strip(news_text) # <<>>
    THEN Append(history, [text |-> news_text, result |-> result])
    ELSE history

\* the handler keeping only the displayed window in storage
HandleCapped(history, analyze_button, news_text, result) ==
    IF analyze_button /\ Strip(news_text) # <<>> /\ result # None
    THEN LastN(Append(history, [text |-> news_text, result |-> result]), DisplayWindow)
    ELSE history

\* the handler skipping a text that is already in the history
HandleDedup(history, analyze_button, news_text, result) ==
    IF /\ analyze_button /\ Strip(news_text) # <<>> /\ result # None
       /\ \A i \in 1..Len(history) : history[i].text # news_text
    THEN Append(history, [text |-> news_text, result |-> result])
    ELSE history

\* the handler of the button: the new value of st.session_state.history
Handle(history, analyze_button, news_text, result) ==
    IF analyze_button /\ Strip(news_text) # <<>> /\ result # None
    THEN Append(history, [text |-> news_text, result |-> result])
    ELSE history

\* a script without the gate on the artifacts
AlwaysLoaded(model, vectorizer) == TRUE

\* model is not None and vectorizer is not None
Loaded(model, vectorizer) == model # "None" /\ vectorizer # "None"

\* the order of the blocks of the script after load_models
Following(stage) ==
    CASE stage = "gate_true"  -> "col1"
      [] stage = "gate_false" -> "else"
      [] stage = "col1"       -> "col2"
      [] stage = "col2"       -> "footer"
      [] stage = "else"       -> "footer"

AfterLoad(model, vectorizer) ==
    Following(IF Loaded(model, vectorizer) THEN "gate_true" ELSE "gate_false")

(***************************************************************************)
(* State.                                                                  *)
(***************************************************************************)
VARIABLES
    files,          \* the two pickle files on disk
    cache,          \* st.cache_resource entry of load_models()
    lock,           \* holder of the cache's compute lock, 0 when free
    reads,          \* joblib.load calls made so far, per file
    pc,             \* stage of the script run of each session
    budget,         \* script runs a session may still start
    model,          \* script global model of the run
    vectorizer,     \* script global vectorizer of the run
    news_text,      \* value of the text area in the run
    analyze_button, \* value of the button in the run
    call,           \* what the artifacts did when predict_news called them
    called,         \* whether the run called predict_news
    result,         \* result of predict_news in the run
    session_state,  \* st.session_state of each session
    page,           \* what the run has rendered
    log,            \* the submissions for which predict_news gave a result, in order
    attempts        \* calls of predict_news made for the session so far

vars == <<files, cache, lock, reads, pc, budget, model, vectorizer, news_text,
          analyze_button, call, called, result, session_state, page, log, attempts>>

shared == <<files, cache, lock, reads>>
locals == <<news_text, analyze_button, call, called, result>>

EmptyCache == [filled |-> FALSE, model |-> "None", vectorizer |-> "None"]
BlankPage == [message |-> "none", recent |-> <<>>]

InitWith(b) ==
    /\ files \in [model : ModelFiles, vectorizer : VectorizerFiles]
    /\ cache = EmptyCache
    /\ lock = 0
    /\ reads = [model |-> 0, vectorizer |-> 0]
    /\ pc = [s \in Sessions |-> "idle"]
    /\ budget = b
    /\ model = [s \in Sessions |-> "None"]
    /\ vectorizer = [s \in Sessions |-> "None"]
    /\ news_text = [s \in Sessions |-> <<>>]
    /\ analyze_button = [s \in Sessions |-> FALSE]
    /\ call = [s \in Sessions |-> NoOutcome]
    /\ called = [s \in Sessions |-> FALSE]
    /\ result = [s \in Sessions |-> None]
    /\ session_state = [s \in Sessions |-> [present |-> FALSE, history |-> <<>>]]
    /\ page = [s \in Sessions |-> BlankPage]
    /\ log = [s \in Sessions |-> <<>>]
    /\ attempts = [s \in Sessions |-> 0]

\* session 1 runs the script MaxRuns times; its peer runs it once, at any moment
Init == InitWith([s \in Sessions |-> IF s = 1 THEN MaxRuns ELSE 1])

\* one session that checks many texts; the classifier on disk is binary or absent
InitLong ==
    /\ InitWith([s \in Sessions |-> IF s = 1 THEN MaxChecks ELSE 0])
    /\ files.model # "multiclass"

(***************************************************************************)
(* Actions.                                                                *)
(***************************************************************************)
\* A user interaction starts a run of the script with a fresh page.
Rerun(s) ==
    /\ pc[s] = "idle"
    /\ budget[s] > 0
    /\ budget' = [budget EXCEPT ![s] = @ - 1]
    /\ pc' = [pc EXCEPT ![s] = "load_models"]
    /\ page' = [page EXCEPT ![s] = BlankPage]
    /\ UNCHANGED <<shared, model, vectorizer, locals, session_state, log, attempts>>

\* model, vectorizer = load_models(), answered from the cache
Return(s) ==
    /\ model' = [model EXCEPT ![s] = cache'.model]
    /\ vectorizer' = [vectorizer EXCEPT ![s] = cache'.vectorizer]
    /\ pc' = [pc EXCEPT ![s] = AfterLoad(cache'.model, cache'.vectorizer)]

\* load_models(): the cache is read first without the lock
LoadModelsLookup(s) ==
    /\ pc[s] = "load_models"
    /\ IF cache.filled
       THEN /\ cache' = cache
            /\ Return(s)
       ELSE /\ pc' = [pc EXCEPT ![s] = "lock"]
            /\ UNCHANGED <<cache, model, vectorizer>>
    /\ UNCHANGED <<files, lock, reads, budget, locals, session_state, page, log, attempts>>

\* a cache that computes after the lock without looking again
NoRecheck(c) == FALSE

\* whether a run that holds the compute lock finds the value already there
Recheck(c) == c.filled

\* load_models(): a miss takes the compute lock and reads the cache again
LoadModelsLock(s) ==
    /\ pc[s] = "lock"
    /\ lock = 0
    /\ IF Recheck(cache)
       THEN /\ cache' = cache
            /\ Return(s)
            /\ lock' = lock
       ELSE /\ lock' = s
            /\ pc' = [pc EXCEPT ![s] = "compute"]
            /\ UNCHANGED <<cache, model, vectorizer>>
    /\ UNCHANGED <<files, reads, budget, locals, session_state, page, log, attempts>>

\* the body of load_models: (model, vectorizer), or (None, None) on any exception
LoadModelsBody(f) ==
    IF f.model = "missing" \/ f.vectorizer = "missing"
    THEN [filled |-> TRUE, model |-> "None", vectorizer |-> "None"]
    ELSE [filled |-> TRUE, model |-> f.model, vectorizer |-> f.vectorizer]

\* load_models(): the body runs under the lock and its value is stored
LoadModelsCompute(s) ==
    /\ pc[s] = "compute"
    /\ reads' = [model |-> reads.model + 1,
                 vectorizer |-> IF files.model = "missing" THEN reads.vectorizer
                                ELSE reads.vectorizer + 1]
    /\ cache' = LoadModelsBody(files)
    /\ lock' = 0
    /\ Return(s)
    /\ UNCHANGED <<files, budget, locals, session_state, page, log, attempts>>

\* with col1: the widgets, the history key and the handler of the button
Col1(s) ==
    /\ pc[s] = "col1"
    /\ \E text \in Texts, button \in BOOLEAN, oc \in Outcomes(model[s]) :
         LET invoke == button /\ Strip(text) # <<>>
             res == IF invoke THEN PredictNews(text, model[s], vectorizer[s], oc) ELSE None
             history == session_state[s].history
         IN /\ news_text' = [news_text EXCEPT ![s] = text]
            /\ analyze_button' = [analyze_button EXCEPT ![s] = button]
            /\ called' = [called EXCEPT ![s] = invoke]
            /\ call' = [call EXCEPT ![s] = IF invoke THEN oc ELSE NoOutcome]
            /\ result' = [result EXCEPT ![s] = res]
            /\ session_state' = [session_state EXCEPT ![s] =
                   [present |-> TRUE, history |-> Handle(history, button, text, res)]]
            /\ log' = [log EXCEPT ![s] =
                   IF invoke /\ res # None THEN Append(@, [text |-> text, result |-> res]) ELSE @]
            /\ attempts' = [attempts EXCEPT ![s] = IF invoke THEN @ + 1 ELSE @]
            /\ page' = [page EXCEPT ![s].message =
                   IF ~button THEN "none"
                   ELSE IF ~invoke THEN "warning"
                   ELSE IF res = None THEN "prediction_error"
                   ELSE "result"]
    /\ pc' = [pc EXCEPT ![s] = Following("col1")]
    /\ UNCHANGED <<shared, budget, model, vectorizer>>

\* with col2: the "Recent Checks" list
Col2(s) ==
    /\ pc[s] = "col2"
    /\ IF session_state[s].present
       THEN /\ page' = [page EXCEPT ![s].recent = RecentChecks(session_state[s].history)]
            /\ pc' = [pc EXCEPT ![s] = Following("col2")]
       ELSE /\ pc' = [pc EXCEPT ![s] = "exception"]
            /\ page' = page
    /\ UNCHANGED <<shared, budget, model, vectorizer, locals, session_state, log, attempts>>

\* else: the error message when the models could not be loaded
Else(s) ==
    /\ pc[s] = "else"
    /\ page' = [page EXCEPT ![s].message = "load_error"]
    /\ pc' = [pc EXCEPT ![s] = Following("else")]
    /\ UNCHANGED <<shared, budget, model, vectorizer, locals, session_state, log, attempts>>

\* the footer ends the run; the globals of the script go with it
Footer(s) ==
    /\ pc[s] = "footer"
    /\ pc' = [pc EXCEPT ![s] = "idle"]
    /\ model' = [model EXCEPT ![s] = "None"]
    /\ vectorizer' = [vectorizer EXCEPT ![s] = "None"]
    /\ news_text' = [news_text EXCEPT ![s] = <<>>]
    /\ analyze_button' = [analyze_button EXCEPT ![s] = FALSE]
    /\ call' = [call EXCEPT ![s] = NoOutcome]
    /\ called' = [called EXCEPT ![s] = FALSE]
    /\ result' = [result EXCEPT ![s] = None]
    /\ UNCHANGED <<shared, budget, session_state, page, log, attempts>>

Next ==
    \E s \in Sessions :
        \/ Rerun(s)
        \/ LoadModelsLookup(s)
        \/ LoadModelsLock(s)
        \/ LoadModelsCompute(s)
        \/ Col1(s)
        \/ Col2(s)
        \/ Else(s)
        \/ Footer(s)

Spec == Init /\ [][Next]_vars

SpecLong == InitLong /\ [][Next]_vars

(***************************************************************************)
(* Properties.                                                             *)
(***************************************************************************)
History(s) == session_state[s].history

Entry(s) == [text |-> news_text[s], result |-> result[s]]

\* empty or whitespace-only
IsBlank(t) == \A i \in 1..Len(t) : t[i] \in Whitespace

IsPrefix(a, b) == Len(a) <= Len(b) /\ \A i \in 1..Len(a) : a[i] = b[i]

\* the run of session s has rendered its page
Rendered(s) == pc[s] \in {"footer", "idle"}

\* C1: after k successful submissions the displayed history holds exactly
\* min(k,5) entries, the last min(k,5) submissions, most recent first, and
\* all k submissions stay stored.
C1_RecentIsLastFiveReversed ==
    \A s \in Sessions :
        Rendered(s) =>
            LET k == Len(log[s])
                m == IF k < 5 THEN k ELSE 5
            IN /\ Len(page[s].recent) = m
               /\ \A i \in 1..m : page[s].recent[i] = log[s][k + 1 - i]
               /\ Len(History(s)) = k
               /\ k > 0 => History(s)[1] = log[s][1]

\* six submissions, not all alike: #6..#2 are shown, #1 is stored only
C1_Witness ==
    /\ pc[1] = "footer"
    /\ Len(log[1]) = 6
    /\ log[1][1] # log[1][2]
    /\ log[1][5] # log[1][6]
    /\ page[1].recent = <<log[1][6], log[1][5], log[1][4], log[1][3], log[1][2]>>
    /\ History(1)[1] = log[1][1]

\* C2: a submission of empty or whitespace-only text never calls
\* predict_news and leaves the history as it was; only a warning is shown.
C2_BlankSubmission ==
    [][\A s \in Sessions :
          (pc[s] = "col1" /\ pc'[s] # "col1" /\ analyze_button'[s] /\ IsBlank(news_text'[s])) =>
              /\ ~called'[s]
              /\ attempts'[s] = attempts[s]
              /\ session_state'[s].history = session_state[s].history
              /\ page'[s].message = "warning"]_vars

\* a whitespace-only text was submitted on top of a history that stays
C2_Witness ==
    \E s \in Sessions :
        /\ pc[s] = "col2"
        /\ analyze_button[s]
        /\ news_text[s] = <<" ", "\n">>
        /\ ~called[s]
        /\ page[s].message = "warning"
        /\ Len(History(s)) = 1

LoadFailed == cache.filled /\ (cache.model = "None" \/ cache.vectorizer = "None")

\* C3: once load_models has returned (None, None), in every later state no
\* inference is attempted, no history entry exists, the run shows the load
\* error and no exception is raised.
C3_LoadFailureDisablesInference ==
    [][/\ LoadFailed => LoadFailed'
       /\ LoadFailed' =>
            \A s \in Sessions :
                /\ ~called'[s]
                /\ attempts'[s] = 0
                /\ session_state'[s].history = <<>>
                /\ pc'[s] \notin {"col1", "col2", "exception"}
                /\ pc'[s] = "footer" => page'[s].message = "load_error"
                /\ pc'[s] \in {"else", "footer"} =>
                       (model'[s] = "None" /\ vectorizer'[s] = "None")]_vars

\* the classifier is on disk, the vectorizer is not: the third run of
\* session 1 still shows the load error
C3_Witness ==
    /\ LoadFailed
    /\ files.model = "binary"
    /\ pc[1] = "footer"
    /\ budget[1] = 0
    /\ page[1].message = "load_error"
    /\ page[2].message = "load_error"

\* C4: when transform or predict raises, predict_news returns None, the
\* run goes on to render, the history is what it was, and the cached
\* artifacts and the run's handles to them are untouched.
C4_InferenceFailure ==
    [][\A s \in Sessions :
          (pc[s] = "col1" /\ called'[s] /\ call'[s].raises # "none") =>
              /\ result'[s] = None
              /\ session_state'[s].history = session_state[s].history
              /\ pc'[s] = "col2"
              /\ page'[s].message = "prediction_error"
              /\ cache' = cache
              /\ Loaded(model'[s], vectorizer'[s])]_vars

\* a submission succeeds and is appended after an earlier one of the
\* session failed
C4_Witness ==
    \E s \in Sessions :
        /\ pc[s] = "col2"
        /\ result[s] # None
        /\ attempts[s] = 2
        /\ log[s] = <<Entry(s)>>
        /\ History(s) = <<Entry(s)>>

\* C5: the label is REAL iff the predicted index is 1, and the confidence
\* is probabilities[1] for REAL and probabilities[0] for FAKE (indices of
\* the source; rows are 1-based here).
C5_ConfidenceOfPredictedClass ==
    \A s \in Sessions :
        result[s] # None =>
            /\ result[s].prediction \in {"REAL", "FAKE"}
            /\ result[s].prediction = "REAL" <=> call[s].prediction = 1
            /\ result[s].probabilities = call[s].probabilities
            /\ result[s].prediction = "REAL" => result[s].confidence = call[s].probabilities[2]
            /\ result[s].prediction = "FAKE" => result[s].confidence = call[s].probabilities[1]
            /\ call[s].prediction \in {0, 1} =>
                   result[s].confidence = call[s].probabilities[call[s].prediction + 1]

\* index 1 with probabilities [0.08, 0.92] gives REAL with confidence 0.92
C5_Witness ==
    \E s \in Sessions :
        /\ call[s].prediction = 1
        /\ result[s] = [prediction |-> "REAL", confidence |-> 92, probabilities |-> <<8, 92>>]

\* C6: the history only grows at its end: every step leaves the old
\* history a prefix of the new one, whatever the submission, also beyond
\* the five entries that are displayed.
C6_AppendOnly ==
    [][\A s \in Sessions :
          IsPrefix(session_state[s].history, session_state'[s].history)]_vars

\* six entries are stored while five are displayed
C6_Witness ==
    /\ Len(History(1)) = 6
    /\ Len(page[1].recent) = 5
    /\ pc[1] = "footer"

\* C7: each file is read at most once in the life of the process, and every
\* run that is past load_models holds the cached pair.
C7_LoadedOnce ==
    /\ reads.model <= 1
    /\ reads.vectorizer <= 1
    /\ cache.filled <=> reads.model = 1
    /\ lock # 0 => ~cache.filled
    /\ \A s \in Sessions :
           pc[s] \in {"col1", "col2", "else", "footer"} =>
               /\ cache.filled
               /\ model[s] = cache.model
               /\ vectorizer[s] = cache.vectorizer

\* session 2 missed the cache while session 1 was loading, and now waits
\* for a lock behind which the value is already stored
C7_Witness ==
    /\ pc[2] = "lock"
    /\ pc[1] = "col1"
    /\ cache.filled
    /\ reads.model = 1
    /\ reads.vectorizer = 1

\* C8: a predicted index other than 0 and 1 is an inference error: no
\* label is produced and the history is left as it was.
C8_NonBinaryIndexIsError ==
    [][\A s \in Sessions :
          (pc[s] = "col1" /\ called'[s] /\ call'[s].raises = "none"
             /\ call'[s].prediction \notin {0, 1}) =>
              /\ result'[s] = None
              /\ session_state'[s].history = session_state[s].history]_vars

\* C9: the stored history is the sequence of the successful submissions of
\* the session, one entry with text and result for each.
C9_HistoryIsLogOfSuccesses ==
    \A s \in Sessions :
        /\ History(s) = log[s]
        /\ Len(History(s)) <= attempts[s]

\* the same text was submitted twice and is stored twice
C9_Witness ==
    \E s \in Sessions :
        /\ Len(History(s)) = 2
        /\ History(s)[1].text = History(s)[2].text
        /\ attempts[s] = 2

\* C10: the run that appends an entry renders it, as the first item of the
\* displayed history.
C10_AppendedBeforeRendered ==
    \A s \in Sessions :
        (pc[s] = "footer" /\ result[s] # None) =>
            /\ page[s].recent # <<>>
            /\ page[s].recent[1] = Entry(s)
            /\ page[s].message = "result"

\* the second submission heads the list, above a different first one
C10_Witness ==
    \E s \in Sessions :
        /\ pc[s] = "footer"
        /\ result[s] # None
        /\ Len(page[s].recent) = 2
        /\ page[s].recent[1] = Entry(s)
        /\ page[s].recent[2] # Entry(s)

=============================================================================
